---- MODULE Spec2Model ----
(***************************************************************************)
(* Model of lotus.hpp: a registry of named, reference counted resources.   *)
(* Each thread runs get / reg / reload_registry / unload_registry and the  *)
(* resource_handle constructors, operator= and destructor, one atomic or   *)
(* mutex operation per step.                                               *)
(***************************************************************************)
EXTENDS Integers, Sequences, FiniteSets, TLC

\* ---------------------------------------------------------------- bounds
MaxObj == 2          \* resource objects the callers ever create
MaxHandles == 2      \* resource_handle variables each thread owns

Threads == {"t1", "t2"}
MainThread == "t1"
Names == {"a", "b"}          \* names used by single-threaded callers
SharedNames == {"a"}         \* names used by concurrent callers
Objs == 1..MaxObj
HIdx == 1..MaxHandles

NoThread == "none"           \* mutex not owned
NoName == "none"
\* slots: the one the map holds for a name, and the one an insert that raced
\* with another insert on the same name left outside the map
DupSlot(n) == IF n = "a" THEN "a#2" ELSE "b#2"
SlotIds == Names \cup {DupSlot(n) : n \in Names}
nullptr == 0                 \* shared::object before any reg
Dead == "dead"               \* handle variable not constructed / destroyed
Null == "null"               \* handle with shr == nullptr
loaded == "loaded"
unloaded == "unloaded"
waiting_load == "waiting_load"
states == {loaded, unloaded, waiting_load}

VARIABLES
    reg,        \* resource_registry::reg, the keys present in the map
    state,      \* shared::state of the slot of each name
    count,      \* shared::count
    object,     \* shared::object
    mutex,      \* resource_registry::mutex, its owner or NoThread
    hs,         \* hs[t][i]: shr of handle variable i of thread t
    th,         \* per thread: position and locals of the running call
    nextObj,    \* next object the callers allocate
    alive,      \* the registry has not been destroyed
    unl,        \* history: unl[o] = number of ruc(o) calls
    bulkUnl,    \* history: objects passed to ruc by unload_registry
    lastReg,    \* history: object of the last completed reg per name
    opLog,      \* history: callbacks invoked by each thread's current call
    pre,        \* history: the slots as they were when the last call began
    recording   \* which histories are kept (never changes)

vars == <<reg, state, count, object, mutex, hs, th, nextObj, alive,
          unl, bulkUnl, lastReg, opLog, pre, recording>>

slotVars == <<reg, state, count, object>>
histVars == <<unl, bulkUnl, lastReg, opLog, pre>>

\* "calls": lastReg, opLog and pre, the history of one call at a time
\* "unloads": unl and bulkUnl, the objects passed to the unload callback
RecCalls == "calls" \in recording
RecUnloads == "unloads" \in recording

Log(t, e) ==
    opLog' = IF RecCalls THEN [opLog EXCEPT ![t] = Append(@, e)] ELSE opLog

\* ---------------------------------------------------------------- helpers
IdleTh == [pc |-> "idle", op |-> "none", name |-> NoName, shr |-> NoName,
           h |-> 0, src |-> Null, rname |-> NoName, rshr |-> NoName,
           robj |-> nullptr, ret |-> "idle",
           scanned |-> {}, cur |-> NoName, toload |-> <<>>]

\* the slots as a call finds them
Slots == [state |-> state, count |-> count, object |-> object, unl |-> unl]

\* what is remembered of the call that begins: its thread, operation and
\* operands, the registry and the handles as it finds them and, when it
\* drops the handle that the call before it made as a copy, the slots as
\* they were before that copy
Snap(t, op, n, h) ==
    [t |-> t, op |-> op, name |-> n, h |-> h, reg |-> reg, state |-> state,
     count |-> count, object |-> object, unl |-> unl, lastReg |-> lastReg,
     nextObj |-> nextObj, hs |-> hs[t],
     cloned |-> (op = "drop" /\ pre.op = "clone" /\ pre.t = t /\ pre.h = h),
     base |-> IF op = "drop" /\ pre.op = "clone" /\ pre.t = t /\ pre.h = h
              THEN pre.base ELSE Slots]

\* a callback invocation by thread t: which callback, its argument, and the
\* call it is made from
Ev(t, cb, o, n) ==
    [cb |-> cb, obj |-> o, name |-> n, from |-> th[t].op]

\* the handle variable a thread constructs next
NewHandle(t) ==
    CHOOSE i \in HIdx : hs[t][i] = Dead /\ \A j \in HIdx : hs[t][j] = Dead => i <= j

HasDead(t) == \E i \in HIdx : hs[t][i] = Dead

Begin(t, op, n, h) ==
    /\ alive
    /\ th[t].pc = "idle"
    /\ pre' = IF RecCalls THEN Snap(t, op, n, h) ELSE pre
    /\ opLog' = [opLog EXCEPT ![t] = <<>>]
    /\ UNCHANGED recording

\* std::mutex::unlock by thread t.  Unlocking a mutex the thread does not
\* own is undefined: the mutex is left alone or released under its owner.
UnlockOutcomes(t) ==
    IF mutex = t THEN {NoThread} ELSE {mutex, NoThread}

\* resource_registry::find_or_create_shared
FindOrCreateShared(n) ==
    IF n \in reg
    THEN UNCHANGED slotVars
    ELSE /\ reg' = reg \cup {n}
         /\ state' = [state EXCEPT ![n] = unloaded]
         /\ count' = [count EXCEPT ![n] = 0]
         /\ object' = [object EXCEPT ![n] = nullptr]

\* two executions of find_or_create_shared overlap on a name that is not in
\* the map: thread t runs it while another thread is inside it for the same
\* name.  The unsynchronised inserts are a data race on the unordered_map.
Racing(t, n) ==
    /\ n \notin reg
    /\ \E u \in Threads \ {t} :
           \/ th[u].pc = "get_foc" /\ th[u].name = n
           \/ th[u].pc = "reg_foc" /\ th[u].rname = n

InitState ==
    /\ reg = {}
    /\ state = [n \in SlotIds |-> unloaded]
    /\ count = [n \in SlotIds |-> 0]
    /\ object = [n \in SlotIds |-> nullptr]
    /\ mutex = NoThread
    /\ hs = [t \in Threads |-> [i \in HIdx |-> Dead]]
    /\ th = [t \in Threads |-> IdleTh]
    /\ nextObj = 1
    /\ alive = TRUE
    /\ unl = [o \in Objs |-> 0]
    /\ bulkUnl = {}
    /\ lastReg = [n \in Names |-> nullptr]
    /\ opLog = [t \in Threads |-> <<>>]
    /\ pre = [t |-> NoThread, op |-> "none", name |-> NoName, h |-> 0,
              reg |-> reg, state |-> state, count |-> count,
              object |-> object, unl |-> unl, lastReg |-> lastReg,
              nextObj |-> nextObj, hs |-> hs[MainThread], cloned |-> FALSE,
              base |-> Slots]

Init == InitState /\ recording = {}
InitUnloads == InitState /\ recording = {"unloads"}
InitSeq == InitState /\ recording = {"calls", "unloads"}

\* ---------------------------------------------------------------- lotus::get
\* resource_handle h = get(n, reg);
GetCall(t, n) ==
    /\ HasDead(t)
    /\ Begin(t, "get", n, NewHandle(t))
    /\ th' = [th EXCEPT ![t] = [IdleTh EXCEPT !.pc = "get_lock", !.op = "get",
                                              !.name = n, !.h = NewHandle(t)]]
    /\ UNCHANGED <<slotVars, mutex, hs, nextObj, alive, unl, bulkUnl, lastReg>>

\* std::lock_guard<std::mutex> lock(reg.mutex);
GetLock(t) ==
    /\ th[t].pc = "get_lock"
    /\ mutex = NoThread
    /\ mutex' = t
    /\ th' = [th EXCEPT ![t].pc = "get_foc"]
    /\ UNCHANGED <<slotVars, hs, nextObj, alive, histVars, recording>>

\* auto shr = reg.find_or_create_shared(name);
GetFind(t) ==
    /\ th[t].pc = "get_foc"
    /\ FindOrCreateShared(th[t].name)
    /\ th' = [th EXCEPT ![t].pc = "get_unlock", ![t].shr = th[t].name]
    /\ UNCHANGED <<mutex, hs, nextObj, alive, histVars, recording>>

\* find_or_create_shared racing with another insert of the same name: the
\* node this thread inserts is lost from the map, the call keeps its pointer
GetFindRaced(t) ==
    /\ th[t].pc = "get_foc"
    /\ Racing(t, th[t].name)
    /\ th' = [th EXCEPT ![t].pc = "get_unlock", ![t].shr = DupSlot(th[t].name)]
    /\ UNCHANGED <<slotVars, mutex, hs, nextObj, alive, histVars, recording>>

\* a get that keeps the mutex across the request callback
GetUnlock_Missing(t) ==
    /\ th[t].pc = "get_unlock"
    /\ th' = [th EXCEPT ![t].pc = "get_check"]
    /\ UNCHANGED <<slotVars, mutex, hs, nextObj, alive, histVars, recording>>

\* lock.~lock_guard();
GetUnlock(t) ==
    /\ th[t].pc = "get_unlock"
    /\ mutex' \in UnlockOutcomes(t)
    /\ th' = [th EXCEPT ![t].pc = "get_check"]
    /\ UNCHANGED <<slotVars, hs, nextObj, alive, histVars, recording>>

\* a get that requests whenever it is called
GetCheck_AlwaysRequest(t) ==
    /\ th[t].pc = "get_check"
    /\ th' = [th EXCEPT ![t].pc = "get_rrc"]
    /\ UNCHANGED <<slotVars, mutex, hs, nextObj, alive, histVars, recording>>

\* a get that marks the slot waiting_load before it requests, and requests
\* only for a slot it finds unloaded
GetCheck_MarkWaiting(t) ==
    /\ th[t].pc = "get_check"
    /\ th' = [th EXCEPT ![t].pc =
                 IF state[th[t].shr] = unloaded THEN "get_rrc" ELSE "get_ctor"]
    /\ state' = IF state[th[t].shr] = unloaded
                THEN [state EXCEPT ![th[t].shr] = waiting_load] ELSE state
    /\ UNCHANGED <<reg, count, object, mutex, hs, nextObj, alive, histVars, recording>>

\* if (shr->state.load() == states::unloaded)
GetCheck(t) ==
    /\ th[t].pc = "get_check"
    /\ th' = [th EXCEPT ![t].pc =
                 IF state[th[t].shr] = unloaded THEN "get_rrc" ELSE "get_ctor"]
    /\ UNCHANGED <<slotVars, mutex, hs, nextObj, alive, histVars, recording>>

\* reg.rrc(name, reg): the user's callback returns without registering
GetRequestNone(t) ==
    /\ th[t].pc = "get_rrc"
    /\ Log(t, Ev(t, "rrc", nullptr, th[t].name))
    /\ th' = [th EXCEPT ![t].pc = "get_ctor"]
    /\ UNCHANGED <<slotVars, mutex, hs, nextObj, alive, unl, bulkUnl, lastReg, pre, recording>>

\* reg.rrc(name, reg): the user's callback calls reg(name, new object, reg)
GetRequestReg(t) ==
    /\ th[t].pc = "get_rrc"
    /\ nextObj <= MaxObj
    /\ Log(t, Ev(t, "rrc", nullptr, th[t].name))
    /\ th' = [th EXCEPT ![t].pc = "reg_lock", ![t].rname = th[t].name,
                        ![t].robj = nextObj, ![t].ret = "get_ctor"]
    /\ nextObj' = nextObj + 1
    /\ UNCHANGED <<slotVars, mutex, hs, alive, unl, bulkUnl, lastReg, pre, recording>>

\* return resource_handle{shr};  resource_handle(shared*) : fetch_add
GetReturn(t) ==
    /\ th[t].pc = "get_ctor"
    /\ count' = [count EXCEPT ![th[t].shr] = @ + 1]
    /\ hs' = [hs EXCEPT ![t][th[t].h] = th[t].shr]
    /\ th' = [th EXCEPT ![t].pc = "get_exit"]
    /\ UNCHANGED <<reg, state, object, mutex, nextObj, alive, histVars, recording>>

\* end of scope: the lock_guard is destroyed a second time
GetExit(t) ==
    /\ th[t].pc = "get_exit"
    /\ mutex' \in UnlockOutcomes(t)
    /\ th' = [th EXCEPT ![t] = IdleTh]
    /\ UNCHANGED <<slotVars, hs, nextObj, alive, histVars, recording>>

\* ---------------------------------------------------------------- lotus::reg
\* reg(n, new object, reg) called directly by a thread
RegCall(t, n) ==
    /\ Begin(t, "reg", n, 0)
    /\ nextObj <= MaxObj
    /\ th' = [th EXCEPT ![t] = [IdleTh EXCEPT !.pc = "reg_lock", !.op = "reg",
                                              !.rname = n, !.robj = nextObj]]
    /\ nextObj' = nextObj + 1
    /\ UNCHANGED <<slotVars, mutex, hs, alive, unl, bulkUnl, lastReg>>

RegLock(t) ==
    /\ th[t].pc = "reg_lock"
    /\ mutex = NoThread
    /\ mutex' = t
    /\ th' = [th EXCEPT ![t].pc = "reg_foc"]
    /\ UNCHANGED <<slotVars, hs, nextObj, alive, histVars, recording>>

RegFind(t) ==
    /\ th[t].pc = "reg_foc"
    /\ FindOrCreateShared(th[t].rname)
    /\ th' = [th EXCEPT ![t].pc = "reg_unlock", ![t].rshr = th[t].rname]
    /\ UNCHANGED <<mutex, hs, nextObj, alive, histVars, recording>>

\* find_or_create_shared racing with another insert of the same name
RegFindRaced(t) ==
    /\ th[t].pc = "reg_foc"
    /\ Racing(t, th[t].rname)
    /\ th' = [th EXCEPT ![t].pc = "reg_unlock", ![t].rshr = DupSlot(th[t].rname)]
    /\ UNCHANGED <<slotVars, mutex, hs, nextObj, alive, histVars, recording>>

RegUnlock(t) ==
    /\ th[t].pc = "reg_unlock"
    /\ mutex' \in UnlockOutcomes(t)
    /\ th' = [th EXCEPT ![t].pc = "reg_obj"]
    /\ UNCHANGED <<slotVars, hs, nextObj, alive, histVars, recording>>

\* a reg that keeps the object of a slot that is loaded
RegObject_KeepLoaded(t) ==
    /\ th[t].pc = "reg_obj"
    /\ object' = IF state[th[t].rshr] = loaded THEN object
                 ELSE [object EXCEPT ![th[t].rshr] = th[t].robj]
    /\ th' = [th EXCEPT ![t].pc = "reg_state"]
    /\ UNCHANGED <<reg, state, count, mutex, hs, nextObj, alive, histVars, recording>>

\* shr->object = object;
RegObject(t) ==
    /\ th[t].pc = "reg_obj"
    /\ object' = [object EXCEPT ![th[t].rshr] = th[t].robj]
    /\ th' = [th EXCEPT ![t].pc = "reg_state"]
    /\ UNCHANGED <<reg, state, count, mutex, hs, nextObj, alive, histVars, recording>>

\* a reg that stores the object and leaves the state as it is
RegState_Skip(t) ==
    /\ th[t].pc = "reg_state"
    /\ th' = [th EXCEPT ![t].pc = "reg_exit"]
    /\ UNCHANGED <<slotVars, mutex, hs, nextObj, alive, histVars, recording>>

\* shr->state.store(states::loaded);
RegState(t) ==
    /\ th[t].pc = "reg_state"
    /\ state' = [state EXCEPT ![th[t].rshr] = loaded]
    /\ th' = [th EXCEPT ![t].pc = "reg_exit"]
    /\ UNCHANGED <<reg, count, object, mutex, hs, nextObj, alive, histVars, recording>>

\* end of scope: second destruction of the lock_guard, then return
RegExit(t) ==
    /\ th[t].pc = "reg_exit"
    /\ mutex' \in UnlockOutcomes(t)
    /\ lastReg' = IF RecCalls THEN [lastReg EXCEPT ![th[t].rname] = th[t].robj]
                  ELSE lastReg
    /\ th' = [th EXCEPT ![t] =
                 IF th[t].ret = "idle" THEN IdleTh
                 ELSE [@ EXCEPT !.pc = th[t].ret, !.rname = NoName,
                                !.rshr = NoName, !.robj = nullptr,
                                !.ret = "idle"]]
    /\ UNCHANGED <<slotVars, hs, nextObj, alive, unl, bulkUnl, opLog, pre, recording>>

\* ---------------------------------------------------------------- resource_handle
\* resource_handle h;   resource_handle() : shr(nullptr)
DefaultHandle(t) ==
    /\ HasDead(t)
    /\ Begin(t, "ctor", NoName, NewHandle(t))
    /\ hs' = [hs EXCEPT ![t][NewHandle(t)] = Null]
    /\ UNCHANGED <<slotVars, mutex, th, nextObj, alive, unl, bulkUnl, lastReg>>

\* a copy constructor that forgets the fetch_add
CloneHandle_NoIncrement(t, j) ==
    /\ HasDead(t)
    /\ Begin(t, "clone", hs[t][j], NewHandle(t))
    /\ hs[t][j] # Dead
    /\ hs' = [hs EXCEPT ![t][NewHandle(t)] = hs[t][j]]
    /\ UNCHANGED <<slotVars, mutex, th, nextObj, alive, unl, bulkUnl, lastReg>>

\* resource_handle h(h_j);   copy constructor: shr(other.shr), fetch_add
CloneHandle(t, j) ==
    /\ HasDead(t)
    /\ Begin(t, "clone", hs[t][j], NewHandle(t))
    /\ hs[t][j] # Dead
    /\ hs' = [hs EXCEPT ![t][NewHandle(t)] = hs[t][j]]
    /\ count' = IF hs[t][j] = Null THEN count
                ELSE [count EXCEPT ![hs[t][j]] = @ + 1]
    /\ UNCHANGED <<reg, state, object, mutex, th, nextObj, alive, unl,
                   bulkUnl, lastReg>>

\* h_i goes out of scope: ~resource_handle() begins
DropCall(t, i) ==
    /\ Begin(t, "drop", hs[t][i], i)
    /\ hs[t][i] # Dead
    /\ th' = [th EXCEPT ![t] = [IdleTh EXCEPT !.pc = "dtor_sub", !.op = "drop",
                                              !.name = hs[t][i], !.h = i]]
    /\ UNCHANGED <<slotVars, mutex, hs, nextObj, alive, unl, bulkUnl, lastReg>>

\* h_i = h_j;   if (shr == other.shr) return *this;
AssignSame(t, i, j) ==
    /\ Begin(t, "assign", hs[t][j], i)
    /\ hs[t][i] # Dead
    /\ hs[t][j] # Dead
    /\ hs[t][i] = hs[t][j]
    /\ UNCHANGED <<slotVars, mutex, hs, th, nextObj, alive, unl, bulkUnl, lastReg>>

\* h_i = h_j;   otherwise this->~resource_handle() runs first
AssignCall(t, i, j) ==
    /\ Begin(t, "assign", hs[t][j], i)
    /\ hs[t][i] # Dead
    /\ hs[t][j] # Dead
    /\ hs[t][i] # hs[t][j]
    /\ th' = [th EXCEPT ![t] = [IdleTh EXCEPT !.pc = "dtor_sub", !.op = "assign",
                                              !.name = hs[t][i], !.h = i,
                                              !.src = hs[t][j]]]
    /\ UNCHANGED <<slotVars, mutex, hs, nextObj, alive, unl, bulkUnl, lastReg>>

\* shr = nullptr; and the return of ~resource_handle(): the handle variable
\* is gone, or (inside operator=) about to be constructed again
DtorDone(t) ==
    /\ hs' = [hs EXCEPT ![t][th[t].h] = IF th[t].op = "assign" THEN Null ELSE Dead]
    /\ th' = [th EXCEPT ![t] = IF th[t].op = "assign"
                               THEN [@ EXCEPT !.pc = "asg_ctor"]
                               ELSE IdleTh]

\* a destructor that does not compare the fetch_sub result with 1
DtorSub_AnyCount(t) ==
    /\ th[t].pc = "dtor_sub"
    /\ IF th[t].name = Null
       THEN /\ DtorDone(t)
            /\ UNCHANGED count
       ELSE /\ count' = [count EXCEPT ![th[t].name] = @ - 1]
            /\ th' = [th EXCEPT ![t].pc = "dtor_load"]
            /\ UNCHANGED hs
    /\ UNCHANGED <<reg, state, object, mutex, nextObj, alive, histVars, recording>>

\* if (shr && shr->count.fetch_sub(1, acq_rel) == 1 && ...
DtorSub(t) ==
    /\ th[t].pc = "dtor_sub"
    /\ IF th[t].name = Null
       THEN /\ DtorDone(t)
            /\ UNCHANGED count
       ELSE /\ count' = [count EXCEPT ![th[t].name] = @ - 1]
            /\ IF count[th[t].name] = 1
               THEN /\ th' = [th EXCEPT ![t].pc = "dtor_load"]
                    /\ UNCHANGED hs
               ELSE DtorDone(t)
    /\ UNCHANGED <<reg, state, object, mutex, nextObj, alive, histVars, recording>>

\* ... && shr->state.load() == states::loaded)
DtorLoad(t) ==
    /\ th[t].pc = "dtor_load"
    /\ IF state[th[t].name] = loaded
       THEN /\ th' = [th EXCEPT ![t].pc = "dtor_store"]
            /\ UNCHANGED hs
       ELSE DtorDone(t)
    /\ UNCHANGED <<slotVars, mutex, nextObj, alive, histVars, recording>>

\* shr->state.store(states::unloaded);
DtorStore(t) ==
    /\ th[t].pc = "dtor_store"
    /\ state' = [state EXCEPT ![th[t].name] = unloaded]
    /\ th' = [th EXCEPT ![t].pc = "dtor_call"]
    /\ UNCHANGED <<reg, count, object, mutex, hs, nextObj, alive, histVars, recording>>

\* the user's unload callback receives object o
Ruc(t, o) ==
    /\ unl' = IF o \in Objs /\ RecUnloads THEN [unl EXCEPT ![o] = @ + 1] ELSE unl
    /\ Log(t, Ev(t, "ruc", o, NoName))

\* shr->registry->ruc(shr->object);
DtorCall(t) ==
    /\ th[t].pc = "dtor_call"
    /\ Ruc(t, object[th[t].name])
    /\ DtorDone(t)
    /\ UNCHANGED <<slotVars, mutex, nextObj, alive, bulkUnl, lastReg, pre, recording>>

\* an assignment that takes the other handle's slot without the fetch_add
AssignCtor_NoIncrement(t) ==
    /\ th[t].pc = "asg_ctor"
    /\ hs' = [hs EXCEPT ![t][th[t].h] = th[t].src]
    /\ th' = [th EXCEPT ![t] = IdleTh]
    /\ UNCHANGED <<slotVars, mutex, nextObj, alive, histVars, recording>>

\* new(this) resource_handle(other.shr);
AssignCtor(t) ==
    /\ th[t].pc = "asg_ctor"
    /\ hs' = [hs EXCEPT ![t][th[t].h] = th[t].src]
    /\ count' = IF th[t].src = Null THEN count
                ELSE [count EXCEPT ![th[t].src] = @ + 1]
    /\ th' = [th EXCEPT ![t] = IdleTh]
    /\ UNCHANGED <<reg, state, object, mutex, nextObj, alive, histVars, recording>>

\* resource_handle::good() of handle variable i of thread t
good(t, i) == state[hs[t][i]] = loaded

\* resource_handle::operator->() of handle variable i of thread t
Read(t, i) == object[hs[t][i]]

\* ---------------------------------------------------------------- lotus::reload_registry
ReloadCall(t) ==
    /\ Begin(t, "reload", NoName, 0)
    /\ th' = [th EXCEPT ![t] = [IdleTh EXCEPT !.pc = "rl_lock", !.op = "reload"]]
    /\ UNCHANGED <<slotVars, mutex, hs, nextObj, alive, unl, bulkUnl, lastReg>>

ReloadLock(t) ==
    /\ th[t].pc = "rl_lock"
    /\ mutex = NoThread
    /\ mutex' = t
    /\ th' = [th EXCEPT ![t].pc = "rl_scan"]
    /\ UNCHANGED <<slotVars, hs, nextObj, alive, histVars, recording>>

\* for (auto& p : reg.reg) if (shr->state.load() == states::loaded)
\* the map's iteration order is unspecified
ReloadScan(t) ==
    /\ th[t].pc = "rl_scan"
    /\ IF reg \subseteq th[t].scanned
       THEN th' = [th EXCEPT ![t].pc = "rl_unlock"]
       ELSE \E n \in reg \ th[t].scanned :
               th' = [th EXCEPT ![t].scanned = @ \cup {n},
                                ![t].cur = n,
                                ![t].pc = IF state[n] = loaded
                                          THEN "rl_store" ELSE "rl_scan"]
    /\ UNCHANGED <<slotVars, mutex, hs, nextObj, alive, histVars, recording>>

\* a reload that resets the count of the slots it unloads
ReloadStore_ResetCount(t) ==
    /\ th[t].pc = "rl_store"
    /\ state' = [state EXCEPT ![th[t].cur] = unloaded]
    /\ count' = [count EXCEPT ![th[t].cur] = 0]
    /\ th' = [th EXCEPT ![t].pc = "rl_ruc"]
    /\ UNCHANGED <<reg, object, mutex, hs, nextObj, alive, histVars, recording>>

\* shr->state.store(states::unloaded);
ReloadStore(t) ==
    /\ th[t].pc = "rl_store"
    /\ state' = [state EXCEPT ![th[t].cur] = unloaded]
    /\ th' = [th EXCEPT ![t].pc = "rl_ruc"]
    /\ UNCHANGED <<reg, count, object, mutex, hs, nextObj, alive, histVars, recording>>

\* a reload that forgets to_load.push_back
ReloadUnload_NoPush(t) ==
    /\ th[t].pc = "rl_ruc"
    /\ Ruc(t, object[th[t].cur])
    /\ th' = [th EXCEPT ![t].pc = "rl_scan"]
    /\ UNCHANGED <<slotVars, mutex, hs, nextObj, alive, bulkUnl, lastReg, pre, recording>>

\* reg.ruc(shr->object); to_load.push_back(p.first);
ReloadUnload(t) ==
    /\ th[t].pc = "rl_ruc"
    /\ Ruc(t, object[th[t].cur])
    /\ th' = [th EXCEPT ![t].toload = Append(@, th[t].cur), ![t].pc = "rl_scan"]
    /\ UNCHANGED <<slotVars, mutex, hs, nextObj, alive, bulkUnl, lastReg, pre, recording>>

\* a reload that keeps the mutex for the request loop
ReloadUnlock_Missing(t) ==
    /\ th[t].pc = "rl_unlock"
    /\ th' = [th EXCEPT ![t].pc = "rl_req"]
    /\ UNCHANGED <<slotVars, mutex, hs, nextObj, alive, histVars, recording>>

\* lock.~lock_guard();
ReloadUnlock(t) ==
    /\ th[t].pc = "rl_unlock"
    /\ mutex' \in UnlockOutcomes(t)
    /\ th' = [th EXCEPT ![t].pc = "rl_req"]
    /\ UNCHANGED <<slotVars, hs, nextObj, alive, histVars, recording>>

\* for (auto& res : to_load) reg.rrc(res.c_str(), reg);  callback returns
ReloadRequestNone(t) ==
    /\ th[t].pc = "rl_req"
    /\ th[t].toload # <<>>
    /\ Log(t, Ev(t, "rrc", nullptr, Head(th[t].toload)))
    /\ th' = [th EXCEPT ![t].toload = Tail(@)]
    /\ UNCHANGED <<slotVars, mutex, hs, nextObj, alive, unl, bulkUnl, lastReg, pre, recording>>

\* the same, the callback calls reg(res, new object, reg)
ReloadRequestReg(t) ==
    /\ th[t].pc = "rl_req"
    /\ th[t].toload # <<>>
    /\ nextObj <= MaxObj
    /\ Log(t, Ev(t, "rrc", nullptr, Head(th[t].toload)))
    /\ th' = [th EXCEPT ![t].toload = Tail(@), ![t].pc = "reg_lock",
                        ![t].rname = Head(th[t].toload), ![t].robj = nextObj,
                        ![t].ret = "rl_req"]
    /\ nextObj' = nextObj + 1
    /\ UNCHANGED <<slotVars, mutex, hs, alive, unl, bulkUnl, lastReg, pre, recording>>

\* end of scope: second destruction of the lock_guard
ReloadExit(t) ==
    /\ th[t].pc = "rl_req"
    /\ th[t].toload = <<>>
    /\ mutex' \in UnlockOutcomes(t)
    /\ th' = [th EXCEPT ![t] = IdleTh]
    /\ UNCHANGED <<slotVars, hs, nextObj, alive, histVars, recording>>

\* ---------------------------------------------------------------- lotus::unload_registry
UnloadCall(t) ==
    /\ Begin(t, "unload", NoName, 0)
    /\ th' = [th EXCEPT ![t] = [IdleTh EXCEPT !.pc = "ul_lock", !.op = "unload"]]
    /\ UNCHANGED <<slotVars, mutex, hs, nextObj, alive, unl, bulkUnl, lastReg>>

UnloadLock(t) ==
    /\ th[t].pc = "ul_lock"
    /\ mutex = NoThread
    /\ mutex' = t
    /\ th' = [th EXCEPT ![t].pc = "ul_scan"]
    /\ UNCHANGED <<slotVars, hs, nextObj, alive, histVars, recording>>

UnloadScan(t) ==
    /\ th[t].pc = "ul_scan"
    /\ IF reg \subseteq th[t].scanned
       THEN th' = [th EXCEPT ![t].pc = "ul_exit"]
       ELSE \E n \in reg \ th[t].scanned :
               th' = [th EXCEPT ![t].scanned = @ \cup {n},
                                ![t].cur = n,
                                ![t].pc = IF state[n] = loaded
                                          THEN "ul_store" ELSE "ul_scan"]
    /\ UNCHANGED <<slotVars, mutex, hs, nextObj, alive, histVars, recording>>

\* an unload that leaves the state loaded
UnloadStore_Skip(t) ==
    /\ th[t].pc = "ul_store"
    /\ th' = [th EXCEPT ![t].pc = "ul_ruc"]
    /\ UNCHANGED <<slotVars, mutex, hs, nextObj, alive, histVars, recording>>

\* shr->state.store(states::unloaded);
UnloadStore(t) ==
    /\ th[t].pc = "ul_store"
    /\ state' = [state EXCEPT ![th[t].cur] = unloaded]
    /\ th' = [th EXCEPT ![t].pc = "ul_ruc"]
    /\ UNCHANGED <<reg, count, object, mutex, hs, nextObj, alive, histVars, recording>>

\* reg.ruc(shr->object);
UnloadUnload(t) ==
    /\ th[t].pc = "ul_ruc"
    /\ Ruc(t, object[th[t].cur])
    /\ bulkUnl' = IF RecUnloads THEN bulkUnl \cup ({object[th[t].cur]} \cap Objs)
                  ELSE bulkUnl
    /\ th' = [th EXCEPT ![t].pc = "ul_scan"]
    /\ UNCHANGED <<slotVars, mutex, hs, nextObj, alive, lastReg, pre, recording>>

\* end of scope: the lock_guard is destroyed (once)
UnloadExit(t) ==
    /\ th[t].pc = "ul_exit"
    /\ mutex' \in UnlockOutcomes(t)
    /\ th' = [th EXCEPT ![t] = IdleTh]
    /\ UNCHANGED <<slotVars, hs, nextObj, alive, histVars, recording>>

\* ---------------------------------------------------------------- the registry's end
\* resource_registry has no destructor: the members are destroyed, no
\* callback runs.  The callers let it die after every handle is gone.
Destroy ==
    /\ alive
    /\ \A t \in Threads : th[t].pc = "idle"
    /\ \A t \in Threads : \A i \in HIdx : hs[t][i] = Dead
    /\ alive' = FALSE
    /\ UNCHANGED <<slotVars, mutex, hs, th, nextObj, histVars, recording>>

\* ---------------------------------------------------------------- specifications
GetStep(t, NS) ==
    \/ \E n \in NS : GetCall(t, n)
    \/ GetLock(t) \/ GetFind(t) \/ GetUnlock(t) \/ GetCheck(t)
    \/ GetRequestNone(t) \/ GetRequestReg(t) \/ GetReturn(t) \/ GetExit(t)

RegStep(t) ==
    \/ RegLock(t) \/ RegFind(t) \/ RegUnlock(t)
    \/ RegObject(t) \/ RegState(t) \/ RegExit(t)

\* find_or_create_shared overlapping with itself on another thread
RaceStep(t) == GetFindRaced(t) \/ RegFindRaced(t)

DropStep(t) ==
    \/ \E i \in HIdx : DropCall(t, i)
    \/ DtorSub(t) \/ DtorLoad(t) \/ DtorStore(t) \/ DtorCall(t)

CloneStep(t) == \E j \in HIdx : CloneHandle(t, j)

AssignStep(t) ==
    \/ DefaultHandle(t)
    \/ \E i \in HIdx : \E j \in HIdx : AssignSame(t, i, j)
    \/ \E i \in HIdx : \E j \in HIdx : AssignCall(t, i, j)
    \/ AssignCtor(t)

BulkStep(t) ==
    \/ ReloadCall(t) \/ ReloadLock(t) \/ ReloadScan(t) \/ ReloadStore(t)
    \/ ReloadUnload(t) \/ ReloadUnlock(t) \/ ReloadRequestNone(t)
    \/ ReloadRequestReg(t) \/ ReloadExit(t)
    \/ UnloadCall(t) \/ UnloadLock(t) \/ UnloadScan(t) \/ UnloadStore(t)
    \/ UnloadUnload(t) \/ UnloadExit(t)

\* the registry's four functions, and handles going out of scope, on every
\* thread
Next ==
    \/ \E t \in Threads :
          \/ GetStep(t, SharedNames)
          \/ \E n \in SharedNames : RegCall(t, n)
          \/ RegStep(t)
          \/ BulkStep(t)
          \/ DropStep(t)
    \/ Destroy
Spec == Init /\ [][Next]_vars

\* concurrent get (whose request callback may register), clone and drop
NextNoBulk ==
    \E t \in Threads :
        GetStep(t, SharedNames) \/ RegStep(t) \/ CloneStep(t) \/ DropStep(t)
SpecNoBulk == InitUnloads /\ [][NextNoBulk]_vars

\* the same with every handle operation
NextHandles ==
    \E t \in Threads :
        \/ GetStep(t, SharedNames) \/ RegStep(t)
        \/ CloneStep(t) \/ DropStep(t) \/ AssignStep(t)
SpecHandles == Init /\ [][NextHandles]_vars

\* concurrent get, reg and reload_registry, with the outcomes of two
\* overlapping executions of find_or_create_shared
NextRace ==
    \E t \in Threads :
        \/ GetStep(t, SharedNames)
        \/ \E n \in SharedNames : RegCall(t, n)
        \/ RegStep(t)
        \/ RaceStep(t)
        \/ ReloadCall(t) \/ ReloadLock(t) \/ ReloadScan(t) \/ ReloadStore(t)
        \/ ReloadUnload(t) \/ ReloadUnlock(t) \/ ReloadRequestNone(t)
        \/ ReloadRequestReg(t) \/ ReloadExit(t)
SpecRace == Init /\ [][NextRace]_vars

\* one thread, every operation, nothing interleaved
NextSeq ==
    \/ GetStep(MainThread, Names)
    \/ \E n \in Names : RegCall(MainThread, n)
    \/ RegStep(MainThread)
    \/ CloneStep(MainThread) \/ DropStep(MainThread) \/ AssignStep(MainThread)
    \/ BulkStep(MainThread)
    \/ Destroy
SpecSeq == InitSeq /\ [][NextSeq]_vars

TypeOK ==
    /\ reg \subseteq Names
    /\ state \in [SlotIds -> states]
    /\ count \in [SlotIds -> Nat]
    /\ object \in [SlotIds -> Objs \cup {nullptr}]
    /\ mutex \in Threads \cup {NoThread}
    /\ hs \in [Threads -> [HIdx -> SlotIds \cup {Dead, Null}]]
    /\ nextObj \in 1..(MaxObj + 1)
    /\ alive \in BOOLEAN
    /\ unl \in [Objs -> Nat]
    /\ bulkUnl \subseteq Objs
    /\ recording \subseteq {"calls", "unloads"}

\* ---------------------------------------------------------------- properties
DtorPcs == {"dtor_sub", "dtor_load", "dtor_store", "dtor_call"}

\* handle variable i of thread t is inside its destructor
InDtor(t, i) == th[t].pc \in DtorPcs /\ th[t].h = i

\* the live handles that reference the slot of name n
LiveHandles(n) ==
    {p \in Threads \X HIdx : hs[p[1]][p[2]] = n /\ ~InDtor(p[1], p[2])}

\* all handle variables whose shr is the slot of n
Holders(n) == {p \in Threads \X HIdx : hs[p[1]][p[2]] = n}

\* no get, handle construction, clone, assignment or drop is in mid-step
Quiescent == \A t \in Threads : th[t].op \notin {"get", "drop", "assign"}

\* C1: a handle drop invokes unload_cb only when the slot's count is 0 and
\* no live handle references the slot (get, clone and drop interleaved, no
\* bulk operation).
C1_LastDropRule ==
    \A t \in Threads :
        th[t].pc = "dtor_call" =>
            /\ count[th[t].name] = 0
            /\ LiveHandles(th[t].name) = {}

\* C2: a slot whose state is loaded holds an object installed by reg that
\* has not been passed to unload_cb (get, reg from the request callback,
\* clone and drop interleaved, no bulk operation).
C2_LoadedObjectValid ==
    \A n \in reg :
        state[n] = loaded => object[n] \in Objs /\ unl[object[n]] = 0

\* C3: at every quiescent point the count of every slot equals the number
\* of live non-empty handles that reference it; empty handles add nothing.
C3_CountAccuracy ==
    Quiescent => \A n \in SlotIds : count[n] = Cardinality(Holders(n))

C3_Witness ==
    /\ Quiescent
    /\ \E t \in Threads : \E i \in HIdx : hs[t][i] = Null
    /\ \E n \in Names :
          /\ count[n] >= 2
          /\ \A t \in Threads : \E i \in HIdx : hs[t][i] = n

\* C4: when the registry is destroyed, every object passed to a completed
\* reg has been passed to unload_cb exactly once.
C4_LoadUnloadPairing ==
    ~alive => \A o \in Objs : o < nextObj => unl[o] = 1

\* the single-threaded caller has returned from a call of operation op
Done(op) ==
    /\ RecCalls
    /\ th[MainThread].pc = "idle"
    /\ pre.t = MainThread
    /\ pre.op = op

\* names whose slot was loaded when the last call began
PreLoaded == {n \in pre.reg : pre.state[n] = loaded}

\* C5: with nothing interleaved, a drop on a loaded slot that leaves other
\* handles invokes no callback and only lowers the count; the drop of the
\* last handle invokes unload_cb exactly once, with the registered object,
\* and leaves the slot unloaded with count 0.
C5_RefcountUnload ==
    (Done("drop") /\ pre.name \in Names /\ pre.state[pre.name] = loaded) =>
        LET n == pre.name
            o == pre.object[n]
            log == opLog[MainThread]
        IN  IF pre.count[n] = 1
            THEN /\ Len(log) = 1
                 /\ log[1].cb = "ruc"
                 /\ log[1].obj = o
                 /\ o = pre.lastReg[n]
                 /\ o \in Objs
                 /\ unl = [pre.unl EXCEPT ![o] = @ + 1]
                 /\ state[n] = unloaded
                 /\ count[n] = 0
            ELSE /\ log = <<>>
                 /\ unl = pre.unl
                 /\ state[n] = loaded
                 /\ object[n] = o
                 /\ count[n] = pre.count[n] - 1
                 /\ count[n] >= 1

C5_Witness ==
    /\ Done("drop")
    /\ pre.name \in Names
    /\ pre.state[pre.name] = loaded
    /\ pre.count[pre.name] = 1
    /\ pre.h > 1
    /\ unl[pre.object[pre.name]] = 1
    /\ state[pre.name] = unloaded

\* C6: with nothing interleaved, a get on a slot that a completed reg left
\* loaded invokes no request_cb and returns a handle that is good() and
\* reads the registered object; a get whose request_cb registers object o
\* synchronously returns a handle that is good() and reads o.
C6_RegisterGetRoundTrip ==
    Done("get") =>
        LET n == pre.name
            t == MainThread
        IN  /\ hs[t][pre.h] = n
            /\ (n \in pre.reg /\ pre.state[n] = loaded) =>
                   /\ opLog[t] = <<>>
                   /\ good(t, pre.h)
                   /\ pre.lastReg[n] \in Objs
                   /\ Read(t, pre.h) = pre.lastReg[n]
            /\ nextObj # pre.nextObj =>
                   /\ Len(opLog[t]) = 1
                   /\ opLog[t][1].cb = "rrc"
                   /\ good(t, pre.h)
                   /\ lastReg[n] = pre.nextObj
                   /\ Read(t, pre.h) = pre.nextObj

C6_Witness ==
    /\ Done("get")
    /\ pre.name \in pre.reg
    /\ pre.state[pre.name] = loaded
    /\ pre.count[pre.name] = 0
    /\ good(MainThread, pre.h)
    /\ Read(MainThread, pre.h) = lastReg[pre.name]

\* C7: with nothing interleaved, reload_registry on K loaded slots invokes
\* unload_cb K times, once with the object of each loaded slot, then
\* request_cb K times, once for each name that was loaded and for no other.
C7_ReloadCallbacks ==
    Done("reload") =>
        LET K == Cardinality(PreLoaded)
            log == opLog[MainThread]
        IN  /\ Len(log) = 2 * K
            /\ \A k \in 1..K : log[k].cb = "ruc"
            /\ \A k \in (K + 1)..(2 * K) : log[k].cb = "rrc"
            /\ {log[k].obj : k \in 1..K} = {pre.object[n] : n \in PreLoaded}
            /\ {log[k].name : k \in (K + 1)..(2 * K)} = PreLoaded
            /\ \A n \in PreLoaded : unl[pre.object[n]] = pre.unl[pre.object[n]] + 1

C7_Witness ==
    /\ Done("reload")
    /\ Cardinality(PreLoaded) = 2
    /\ Len(opLog[MainThread]) = 4

\* C8: with nothing interleaved, unload_registry passes the object of every
\* loaded slot to unload_cb once and leaves every slot unloaded, and an
\* object unloaded by unload_registry is never unloaded again by the drops
\* of the handles that were outstanding: its total stays one.
C8_NoSecondUnload ==
    /\ \A o \in bulkUnl : unl[o] = 1
    /\ Done("unload") =>
          /\ \A n \in reg : state[n] = unloaded
          /\ Len(opLog[MainThread]) = Cardinality(PreLoaded)
          /\ {opLog[MainThread][k].obj : k \in 1..Len(opLog[MainThread])}
                = {pre.object[n] : n \in PreLoaded}
          /\ {pre.object[n] : n \in PreLoaded} \subseteq bulkUnl

C8_Witness ==
    /\ Done("drop")
    /\ pre.name \in Names
    /\ pre.count[pre.name] = 1
    /\ pre.state[pre.name] = unloaded
    /\ count[pre.name] = 0
    /\ object[pre.name] \in bulkUnl
    /\ lastReg[pre.name] = object[pre.name]
    /\ unl[object[pre.name]] = 1

\* thread t is at an invocation of request_cb
AtRequestCb(t) ==
    \/ th[t].pc = "get_rrc"
    \/ th[t].pc = "rl_req" /\ th[t].toload # <<>>

\* thread t is at an invocation of unload_cb inside a bulk operation
AtBulkUnloadCb(t) == th[t].pc \in {"rl_ruc", "ul_ruc"}

\* C9 as stated: in get, reload_registry and unload_registry a thread never
\* owns the mutex when it invokes request_cb or unload_cb.
C9_NoCallbackUnderMutex ==
    \A t \in Threads : (AtRequestCb(t) \/ AtBulkUnloadCb(t)) => mutex # t

\* C9 amended: in get and reload_registry a thread never owns the mutex when
\* it invokes request_cb.
C9_RequestCbUnlocked ==
    \A t \in Threads : AtRequestCb(t) => mutex # t

C9_Witness ==
    \E t \in Threads :
        /\ th[t].pc = "rl_req"
        /\ th[t].toload # <<>>
        /\ mutex \in Threads \ {t}

\* thread t is inside find_or_create_shared or a scan loop over the map
InMapSection(t) ==
    th[t].pc \in {"get_foc", "reg_foc", "rl_scan", "rl_store", "rl_ruc",
                  "ul_scan", "ul_store", "ul_ruc"}

\* C10: at most one thread at a time is inside a section that reads or
\* mutates the map, and such a thread owns the mutex.
C10_MutualExclusion ==
    \A t \in Threads :
        InMapSection(t) =>
            /\ mutex = t
            /\ \A u \in Threads \ {t} : ~InMapSection(u)


\* ---------------------------------------------------------------- progress
\* std::mutex::lock returning in thread t
LockStep(t) == GetLock(t) \/ RegLock(t) \/ ReloadLock(t) \/ UnloadLock(t)

\* every other step of a call that has begun, callbacks included (they return)
RunStep(t) ==
    \/ GetFind(t) \/ GetUnlock(t) \/ GetCheck(t) \/ GetRequestNone(t)
    \/ GetRequestReg(t) \/ GetReturn(t) \/ GetExit(t)
    \/ RegFind(t) \/ RegUnlock(t) \/ RegObject(t) \/ RegState(t) \/ RegExit(t)
    \/ DtorSub(t) \/ DtorLoad(t) \/ DtorStore(t) \/ DtorCall(t)
    \/ ReloadScan(t) \/ ReloadStore(t) \/ ReloadUnload(t) \/ ReloadUnlock(t)
    \/ ReloadRequestNone(t) \/ ReloadRequestReg(t) \/ ReloadExit(t)
    \/ UnloadScan(t) \/ UnloadStore(t) \/ UnloadUnload(t) \/ UnloadExit(t)

\* every thread keeps running, and a thread waiting in lock() gets the
\* mutex if it is free again and again
Fairness ==
    \A t \in Threads : WF_vars(RunStep(t)) /\ SF_vars(LockStep(t))

\* the registry's four functions on every thread (handles are kept)
NextRegistry ==
    \E t \in Threads :
        \/ GetStep(t, SharedNames)
        \/ \E n \in SharedNames : RegCall(t, n)
        \/ RegStep(t)
        \/ BulkStep(t)

SpecFair == Init /\ [][NextRegistry]_vars /\ Fairness

InRegistryCall(t) == th[t].op \in {"get", "reg", "reload", "unload"}

AllIdle == \A t \in Threads : th[t].pc = "idle"

HeldSlots ==
    {th[t].shr : t \in {u \in Threads : th[u].shr # NoName}}
    \cup {th[t].rshr : t \in {u \in Threads : th[u].rshr # NoName}}

\* the slots the handles reference
BoundSlots ==
    {hs[t][i] : t \in Threads, i \in HIdx} \ {Dead, Null}

\* C14: every slot a get or reg call obtained, and every slot a handle
\* references, is the slot the map holds under its name: there is one slot
\* per name, and calls on the same name are bound to the same slot.
C14_SlotUniqueness ==
    (HeldSlots \cup BoundSlots) \subseteq reg

\* ---------------------------------------------------------------- request callback
\* no reg for name n was ever called
NeverRegistered(n) == object[n] = nullptr /\ lastReg[n] = nullptr

\* C12: with nothing interleaved, a get on a name for which no reg was ever
\* called (the request callback returned without registering) invokes
\* request_cb exactly once, leaves the slot unloaded and returns a handle
\* that references the slot and is not good(); this holds for the first and
\* for every later get on the name.
C12_CallbackFailure ==
    (Done("get") /\ NeverRegistered(pre.name)) =>
        LET n == pre.name
            t == MainThread
        IN  /\ n \in reg
            /\ state[n] = unloaded
            /\ hs[t][pre.h] = n
            /\ ~good(t, pre.h)
            /\ Len(opLog[t]) = 1
            /\ opLog[t][1].cb = "rrc"
            /\ opLog[t][1].name = n

\* a second get on a name that was requested before and never registered
C12_Witness ==
    /\ Done("get")
    /\ NeverRegistered(pre.name)
    /\ pre.name \in pre.reg
    /\ pre.count[pre.name] >= 1
    /\ Len(opLog[MainThread]) = 1
    /\ ~good(MainThread, pre.h)

\* C13: a get that finds its slot unloaded and whose request_cb returns
\* without registering leaves the slot in state waiting_load, and the state
\* of every slot is one of unloaded, waiting_load, loaded.
C13_GetMovesToWaitingLoad ==
    /\ \A n \in SlotIds : state[n] \in states
    /\ (Done("get") /\ Len(opLog[MainThread]) = 1 /\ nextObj = pre.nextObj) =>
           state[pre.name] = waiting_load

\* ---------------------------------------------------------------- unload callback
\* C15: with get (whose request callback may register), clone and drop
\* running on two threads and no bulk operation, no object is passed to the
\* unload callback more than once.
C15_NoDoubleUnload ==
    \A o \in Objs : unl[o] <= 1

\* ---------------------------------------------------------------- handle operations
\* C16: with nothing interleaved, h = g leaves h referencing g's slot.  If h
\* referenced that slot already (or both were empty) no count, state or
\* callback count changes.  Otherwise the count of h's old slot drops by one,
\* the count of g's slot rises by one, every other count is unchanged, and
\* unload_cb is invoked (once, with the old slot's object, leaving it
\* unloaded) exactly when h was the last handle of a loaded slot.
C16_Assignment ==
    Done("assign") =>
        LET t == MainThread
            old == pre.hs[pre.h]
            new == pre.name
            log == opLog[t]
            fires == old # Null /\ pre.count[old] = 1 /\ pre.state[old] = loaded
        IN  /\ hs[t][pre.h] = new
            /\ \A i \in HIdx \ {pre.h} : hs[t][i] = pre.hs[i]
            /\ object = pre.object
            /\ IF old = new
               THEN count = pre.count /\ state = pre.state /\ log = <<>>
               ELSE /\ \A s \in SlotIds :
                         count[s] = pre.count[s] - (IF s = old THEN 1 ELSE 0)
                                                 + (IF s = new THEN 1 ELSE 0)
                    /\ IF fires
                       THEN /\ Len(log) = 1
                            /\ log[1].cb = "ruc"
                            /\ log[1].obj = pre.object[old]
                            /\ state = [pre.state EXCEPT ![old] = unloaded]
                       ELSE log = <<>> /\ state = pre.state

\* h was the last handle of a loaded slot and g references another slot
C16_Witness ==
    /\ Done("assign")
    /\ pre.hs[pre.h] \in Names
    /\ pre.name \in Names
    /\ pre.hs[pre.h] # pre.name
    /\ pre.count[pre.hs[pre.h]] = 1
    /\ pre.state[pre.hs[pre.h]] = loaded
    /\ count[pre.name] = 2
    /\ Len(opLog[MainThread]) = 1

\* C17: with nothing interleaved, copying a handle and then dropping the
\* copy leaves state, count and object of every slot and the number of
\* unload_cb calls as they were before the copy, and the drop invokes no
\* callback.
C17_CloneDropIdentity ==
    (Done("drop") /\ pre.cloned /\ pre.name # Null) =>
        /\ Slots = pre.base
        /\ opLog[MainThread] = <<>>
        /\ nextObj = pre.nextObj
        /\ lastReg = pre.lastReg

C17_Witness ==
    /\ Done("drop")
    /\ pre.cloned
    /\ pre.name \in Names
    /\ state[pre.name] = loaded
    /\ count[pre.name] = 1

\* ---------------------------------------------------------------- deferred load
\* the handle variables of the single-threaded caller that reference slot n
HandlesOf(n) == {i \in HIdx : hs[MainThread][i] = n}

\* the single-threaded caller is between two requests of reload_registry,
\* or has returned from it
AfterReloadScan ==
    \/ Done("reload")
    \/ /\ RecCalls
       /\ th[MainThread].op = "reload"
       /\ th[MainThread].pc = "rl_req"

\* C18: with nothing interleaved, (a) a get that finds its slot not loaded
\* and whose request_cb does not register returns a handle that is not
\* good(); (b) a handle is good() only when a reg of its name has completed,
\* and then reads the object of the last reg; (c) when reg(n, obj) returns,
\* the handles that referenced n before the call are the same handles, are
\* good() and read obj; (d) after the unload phase of reload_registry a
\* handle of a slot that was loaded is not good() until the request callback
\* has registered its name again, and good() with the new object after.
C18_DeferredLoad ==
    LET t == MainThread
    IN  /\ (Done("get") /\ nextObj = pre.nextObj /\ pre.name \notin PreLoaded)
               => ~good(t, pre.h)
        /\ (RecCalls /\ th[t].pc = "idle") =>
               \A n \in Names : \A i \in HandlesOf(n) :
                   good(t, i) => lastReg[n] \in Objs /\ Read(t, i) = lastReg[n]
        /\ Done("reg") =>
               /\ hs[t] = pre.hs
               /\ \A i \in HandlesOf(pre.name) :
                      good(t, i) /\ Read(t, i) = pre.nextObj
        /\ AfterReloadScan =>
               /\ hs[t] = pre.hs
               /\ \A n \in PreLoaded : \A i \in HandlesOf(n) :
                      IF lastReg[n] = pre.lastReg[n]
                      THEN ~good(t, i)
                      ELSE good(t, i) /\ Read(t, i) = lastReg[n]

\* a handle that was not good() since its get becomes good() by a reg
C18_Witness ==
    /\ Done("reg")
    /\ pre.lastReg[pre.name] = nullptr
    /\ pre.state[pre.name] = unloaded
    /\ \E i \in HandlesOf(pre.name) :
           good(MainThread, i) /\ Read(MainThread, i) = pre.nextObj

C20_HandlesSurviveReload ==
    /\ Done("reload") =>
           \A n \in PreLoaded : lastReg[n] # pre.lastReg[n] =>
               /\ count[n] = pre.count[n]
               /\ state[n] = loaded
               /\ object[n] = lastReg[n]
               /\ object[n] # pre.object[n]
               /\ unl[pre.object[n]] = pre.unl[pre.object[n]] + 1
               /\ unl[object[n]] = 0
    /\ (Done("drop") /\ pre.name \in PreLoaded) =>
           IF pre.count[pre.name] = 1
           THEN opLog[MainThread]
                    = <<[cb |-> "ruc", obj |-> pre.lastReg[pre.name],
                         name |-> NoName, from |-> "drop"]>>
           ELSE opLog[MainThread] = <<>>
    /\ RecUnloads => \A o \in Objs : unl[o] <= 1

C20_Witness ==
    /\ Done("reload")
    /\ \E n \in PreLoaded :
           /\ pre.count[n] >= 1
           /\ HandlesOf(n) # {}
           /\ lastReg[n] # pre.lastReg[n]
           /\ state[n] = loaded
           /\ unl[pre.object[n]] = 1

====
